---- MODULE Spec2Model ----
(***************************************************************************)
(* The windowing engine of taro-react-virtual-list (hooks/useVirtualList)  *)
(* as a state machine.  One action is one turn of the event loop: the      *)
(* synchronous code between two awaits, timers or platform callbacks.      *)
(* A setRenderList call commits in the turn that makes it.  Segment        *)
(* indices are 0-based as in the source; TLA+ sequences are 1-based, so    *)
(* segment s of a table t is t[s + 1].                                     *)
(***************************************************************************)
EXTENDS Integers, Sequences, FiniteSets, TLC

\* ------------------------------------------------------------------ bounds
\* How many times in one run the surroundings act on their own: the caller
\* replaces the collection, the platform delivers an overlap signal, or an
\* element probe finds no element, or the caller navigates.
MaxEvents == 2
\* the longest list given to the segmenter on its own; the smart size leaves
\* its minimum of 10 from length 121 on
MaxSegmenterLen == 130
\* the clock stops after MaxTime ticks
MaxTime == 16

\* ------------------------------------------------------- program constants
guessItemHeight == 2
\* 0.001, in thousandths of the target's area
INTERSECTION_THRESHOLD == 1
MaxRetries == 3
batchSize == 5
SmartMin == 10

\* the delays of handleScroll, in ticks of 50 ms: throttle's delay (100 ms) and
\* mustRunDelay (300 ms), and the end-of-scroll timeout (300 ms)
ThrottleDelay == 2
MustRunDelay == 6
ScrollEndDelay == 6

\* ----------------------------------------------------- environment answers
\* Overlap ratios the platform reports, in thousandths.
Ratios == {1, 2}
\* Heights the geometry query reports for one item / one segment element.
ItemHeights == {0, 5}
PageHeights == {0, 7}
HeaderHeights == {3}
\* Taro.getEnv(): the mini program, or a platform that is not
Envs == {"WEAPP", "WEB"}

\* ----------------------------------------------------------------- helpers
Min(a, b) == IF a < b THEN a ELSE b
Max(a, b) == IF a > b THEN a ELSE b
\* JavaScript's a || b on numbers
OrElse(a, b) == IF a # 0 THEN a ELSE b
\* Math.floor(Math.sqrt(n))
FloorSqrt(n) == CHOOSE k \in 0..n : k * k <= n /\ (k + 1) * (k + 1) > n
\* Math.ceil(a / b), b > 0
CeilDiv(a, b) == (a + b - 1) \div b

RECURSIVE SumSeq(_)
SumSeq(s) == IF s = <<>> THEN 0 ELSE s[1] + SumSeq(Tail(s))

\* All sequences over S of length exactly n / at most n
RECURSIVE SeqsOfLen(_, _)
SeqsOfLen(S, n) ==
    IF n = 0 THEN {<<>>}
    ELSE {Append(s, x) : s \in SeqsOfLen(S, n - 1), x \in S}
SeqsUpTo(S, n) == UNION {SeqsOfLen(S, k) : k \in 0..n}

\* -------------------------------------------------------------- collections
\* A collection is an identity and a length; its items are fresh objects.
Collection(id, len) == [id |-> id, len |-> len]
Items(c) == [k \in 1..c.len |-> <<c.id, k>>]

SMART == [smart |-> TRUE, n |-> 0]
Fixed(n) == [smart |-> FALSE, n |-> n]

\* a segmenter that drops the items after the last full segment
getSegmentListFloor(lst, num) ==
    IF Len(lst) = 0 THEN <<>>
    ELSE IF num <= 0 THEN <<lst>>
    ELSE [i \in 1..(Len(lst) \div num) |-> SubSeq(lst, (i - 1) * num + 1, i * num)]

\* a segmenter that returns no segment for a size that is not positive
getSegmentListNoWhole(lst, num) ==
    IF Len(lst) = 0 \/ num <= 0 THEN <<>>
    ELSE [i \in 1..CeilDiv(Len(lst), num) |->
             SubSeq(lst, (i - 1) * num + 1, Min(i * num, Len(lst)))]

\* getSegmentList(list, segmentNum)
getSegmentList(lst, num) ==
    IF Len(lst) = 0 THEN <<>>
    ELSE IF num <= 0 THEN <<lst>>
    ELSE [i \in 1..CeilDiv(Len(lst), num) |->
             SubSeq(lst, (i - 1) * num + 1, Min(i * num, Len(lst)))]

\* a smart size that is always the minimum
SegmentSizeTen(lst, segNum) ==
    IF segNum.smart THEN SmartMin ELSE segNum.n

\* the size createSegmentList passes to the segmenter
SegmentSize(lst, segNum) ==
    IF segNum.smart THEN Max(SmartMin, FloorSqrt(Len(lst))) ELSE segNum.n

Segmentation(c, segNum) == getSegmentList(Items(c), SegmentSize(Items(c), segNum))

\* ---------------------------------------------------------------- variables
VARIABLES
    list,              \* the list prop of the latest render
    listRef,           \* listRef.current
    initList,          \* the list closed over by the running initRenderList
    segmentNum,        \* the segmentNum prop
    segmentList,       \* segmentListRef.current
    renderList,        \* the renderList state (= renderListRef.current)
    subPageMap,        \* subPageMapRef.current: a Map from index to ISubPage
    observers,         \* observersRef.current: a Map from index to watcher
    detached,          \* watchers left connected: overwritten in observersRef, or disconnect threw
    observerCreating,  \* observerCreatingRef.current
    probes,            \* checkElementExists calls in flight
    retryTimers,       \* setTimeout retries of createIntersectionObserver
    measuring,         \* getPageInfo calls in flight (initHeight)
    adjacentTimers,    \* adjacentObserverDebounce timers running
    batchFrames,       \* requestAnimationFrame(createBatch) pending: batch numbers
    initializing,      \* initializingRef.current
    isCompleted,       \* the isCompleted state
    initPc,            \* where the running initRenderList is suspended
    headerHeight,      \* headerHeightRef.current
    epoch,             \* history: number of re-segmentations so far
    events,            \* history: collections supplied, overlap signals and probe misses so far
    roundTrip,         \* history: segments swapped out by a signal, with no measurement since
    nav,               \* the scrollTo / scrollIntoView call in progress or settled last
    cleanup,           \* history: the runs of the unmount cleanup and their disconnects
    scroll,            \* the clock, the throttle of handleScroll and scrollEndTimerRef
    view               \* what the last render of the component returned

vars == <<list, listRef, initList, segmentNum, segmentList, renderList, subPageMap,
          observers, detached, observerCreating, probes, retryTimers, measuring,
          adjacentTimers, batchFrames, initializing, isCompleted, initPc,
          headerHeight, epoch, events, roundTrip, nav, cleanup, scroll, view>>

\* everything but events, nav and scroll
engineState == <<list, listRef, initList, segmentNum, segmentList, renderList, subPageMap,
                 observers, detached, observerCreating, probes, retryTimers, measuring,
                 adjacentTimers, batchFrames, initializing, isCompleted, initPc,
                 headerHeight, epoch, roundTrip, cleanup, view>>

\* ------------------------------------------------------------- render list
\* new Map(), map.has(key), and the map after map.set(key, value)
EmptyMap == [k \in {} |-> {}]
Has(map, key) == key \in DOMAIN map
MapSet(map, key, value) ==
    [k \in DOMAIN map \cup {key} |-> IF k = key THEN value ELSE map[k]]
MapDelete(map, key) == [k \in DOMAIN map \ {key} |-> map[k]]
Hole == [kind |-> "hole"]
Rendered(items) == [kind |-> "items", items |-> items]
Placeholder(h) == [kind |-> "height", height |-> h]
\* Array.isArray(page)
IsArray(page) == page.kind = "items"

\* segmentListRef.current[index]?.length || 0
SegLen(index) ==
    IF index >= 0 /\ index < Len(segmentList) THEN Len(segmentList[index + 1]) ELSE 0
\* prevList[index], undefined past the end
PageAt(rl, index) ==
    IF index >= 0 /\ index < Len(rl) THEN rl[index + 1] ELSE Hole
\* newList[index] = value on a copy of rl (a JavaScript array grows with holes)
SetPage(rl, index, value) ==
    [i \in 1..Max(Len(rl), index + 1) |->
        IF i = index + 1 THEN value ELSE PageAt(rl, i - 1)]

\* the cleanup never ran. calls: its runs; threw: the watchers whose disconnect
\* threw in the last run; idle: the last run found nothing to clear; failures
\* and disconnected: the disconnects that threw and that returned, in all runs
NoCleanup == [calls |-> 0, threw |-> {}, idle |-> FALSE, failures |-> 0, disconnected |-> 0]

\* no navigation call was made yet
NavIdle ==
    [pc |-> "idle", index |-> 0, offsetTop |-> 0, pageIndex |-> 0, itemIndexInPage |-> 0,
     estimatedScrollTop |-> 0, scrollHeight |-> 0, log |-> <<>>, endCalls |-> 0,
     result |-> "none",
     checked |-> "none", vlInfo |-> "none", node |-> "none", rechecked |-> "none",
     scrolled |-> "none", viewInfo |-> "none", viewTop |-> 0, viewHeight |-> 0]

\* ------------------------------------------------------------------ locate
PageData(index) == subPageMap[index]
HasPage(index) == Has(subPageMap, index)
\* subPageMapRef.current.get(index)?.height || fallback
PageHeightOr(index, fallback) ==
    IF HasPage(index) THEN OrElse(subPageMap[index].height, fallback) ELSE fallback

\* variant: a walked-over Rendered page always adds its estimate
WalkedHeightEstimate(pageIdx) ==
    LET page == renderList[pageIdx + 1]
    IN  IF IsArray(page) THEN SegLen(pageIdx) * guessItemHeight ELSE page.height

\* the height a walked-over page adds to scrollTop
WalkedHeight(pageIdx) ==
    LET page == renderList[pageIdx + 1]
        pageLength == SegLen(pageIdx)
    IN  IF IsArray(page)
        THEN PageHeightOr(pageIdx, pageLength * guessItemHeight)
        ELSE page.height

\* variant: rendered is reported only where a per-item measurement was used
FoundItemMeasuredOnly(pageIdx, pos, scrollTop, segIdx) ==
    LET page == renderList[pageIdx + 1]
    IN  IF IsArray(page) /\ HasPage(pageIdx) /\ Len(PageData(pageIdx).items) > pos
        THEN [height |-> OrElse(PageData(pageIdx).items[pos + 1], guessItemHeight),
              scrollTop |-> scrollTop + SumSeq(SubSeq(PageData(pageIdx).items, 1, pos)),
              rendered |-> TRUE,
              segIdx |-> segIdx]
        ELSE [height |-> guessItemHeight,
              scrollTop |-> scrollTop + guessItemHeight * pos,
              rendered |-> FALSE,
              segIdx |-> segIdx]

\* variant: the in-page offset is always the estimate
FoundItemEstimateOnly(pageIdx, pos, scrollTop, segIdx) ==
    LET page == renderList[pageIdx + 1]
    IN  [height |-> guessItemHeight,
         scrollTop |-> scrollTop + guessItemHeight * pos,
         rendered |-> IsArray(page),
         segIdx |-> segIdx]

\* the branch of the loop that has found the page holding the item
FoundItem(pageIdx, pos, scrollTop, segIdx) ==
    LET page == renderList[pageIdx + 1]
    IN  IF IsArray(page)
        THEN IF HasPage(pageIdx) /\ Len(PageData(pageIdx).items) > pos
             THEN [height |-> OrElse(PageData(pageIdx).items[pos + 1], guessItemHeight),
                   scrollTop |-> scrollTop + SumSeq(SubSeq(PageData(pageIdx).items, 1, pos)),
                   rendered |-> TRUE,
                   segIdx |-> segIdx]
             ELSE [height |-> guessItemHeight,
                   scrollTop |-> scrollTop + guessItemHeight * pos,
                   rendered |-> TRUE,
                   segIdx |-> segIdx]
        ELSE [height |-> guessItemHeight,
              scrollTop |-> scrollTop + guessItemHeight * pos,
              rendered |-> FALSE,
              segIdx |-> segIdx]

\* the for loop of getItemScrollTop, from page pageIdx on
RECURSIVE ScrollTopLoop(_, _, _, _, _)
ScrollTopLoop(index, pageIdx, curIdx, scrollTop, segIdx) ==
    IF pageIdx >= Len(renderList) \/ pageIdx >= Len(segmentList)
    THEN [height |-> 0, scrollTop |-> scrollTop, rendered |-> FALSE, segIdx |-> segIdx]
    ELSE IF curIdx + SegLen(pageIdx) - 1 < index
         THEN ScrollTopLoop(index, pageIdx + 1, curIdx + SegLen(pageIdx),
                            scrollTop + WalkedHeight(pageIdx), segIdx + 1)
         ELSE FoundItem(pageIdx, index - curIdx, scrollTop, segIdx)

\* variant: the walk starts at 0 instead of the header height
getItemScrollTopNoHeader(index) ==
    IF index < 0
    THEN [height |-> 0, scrollTop |-> 0, rendered |-> FALSE, pageIndex |-> 0]
    ELSE LET r == ScrollTopLoop(index, 0, 0, 0, 0)
         IN  [height |-> r.height, scrollTop |-> r.scrollTop, rendered |-> r.rendered,
              pageIndex |-> Min(r.segIdx, Len(renderList) - 1)]

\* getItemScrollTop(index): height, scrollTop, rendered and pageIndex of an item
getItemScrollTop(index) ==
    IF index < 0
    THEN [height |-> 0, scrollTop |-> 0, rendered |-> FALSE, pageIndex |-> 0]
    ELSE LET r == ScrollTopLoop(index, 0, 0, headerHeight, 0)
         IN  [height |-> r.height, scrollTop |-> r.scrollTop, rendered |-> r.rendered,
              pageIndex |-> Min(r.segIdx, Len(renderList) - 1)]

\* ----------------------------------------------------------------- watchers
Watcher(index, req) == [index |-> index, req |-> req]
\* the watchers still connected to the platform
LiveWatchers ==
    {Watcher(i, observers[i]) : i \in DOMAIN observers} \cup detached

\* the indices for which createIntersectionObserver(index) passes its two guards
InstallableUnguarded(wanted) == {i \in wanted : i >= 0 /\ i < Len(segmentList)}

\* the indices of wanted that pass the guards of createIntersectionObserver
Installable(wanted) ==
    {i \in wanted : /\ ~Has(observers, i)
                    /\ i \notin observerCreating
                    /\ i >= 0 /\ i < Len(segmentList)}

Probe(index, retryCount, req) == [index |-> index, retryCount |-> retryCount, req |-> req]

\* createIntersectionObserver(i) for every i of wanted, up to its first await
RequestObservers(wanted) ==
    /\ observerCreating' = observerCreating \cup Installable(wanted)
    /\ probes' = probes \cup {Probe(i, 0, epoch) : i \in Installable(wanted)}


\* ------------------------------------------------------------ initRenderList
\* newRenderList of initRenderList
InitialRenderList(segs) ==
    [i \in 1..Len(segs) |->
        IF i = 1 THEN Rendered(segs[1])
        ELSE Placeholder(Len(segs[i]) * guessItemHeight)]

Measure(index, kind) == [index |-> index, kind |-> kind]

\* variant: no re-entrancy guard, a second request starts over
CallInitRenderListAgain(c) ==
    /\ initializing' = TRUE
    /\ isCompleted' = FALSE
    /\ initPc' = "header"
    /\ initList' = c

\* initRenderList() up to its first await; a call during a running one returns
CallInitRenderList(c) ==
    IF initializing
    THEN UNCHANGED <<initializing, isCompleted, initPc, initList>>
    ELSE /\ initializing' = TRUE
         /\ isCompleted' = FALSE
         /\ initPc' = "header"
         /\ initList' = c

\* useEffect([list]): the caller renders with a collection of a new identity
SetList(len) ==
    /\ events < MaxEvents
    /\ events' = events + 1
    /\ list' = Collection(list.id + 1, len)
    /\ listRef' = list'
    /\ CallInitRenderList(list')
    /\ UNCHANGED <<nav, cleanup, scroll, view,
                   segmentNum, segmentList, renderList, subPageMap, observers,
                   detached, observerCreating, probes, retryTimers, measuring,
                   adjacentTimers, batchFrames, headerHeight, epoch, roundTrip>>

\* await updateHeaderHeight() resolves
InitHeaderDone(h) ==
    /\ initPc = "header"
    /\ headerHeight' = h
    /\ initPc' = "scroll"
    /\ UNCHANGED <<nav, cleanup, scroll, view,
                   list, listRef, initList, segmentNum, segmentList, renderList,
                   subPageMap, observers, detached, observerCreating, probes,
                   retryTimers, measuring, adjacentTimers, batchFrames, initializing,
                   isCompleted, epoch, events, roundTrip>>

\* the initial value of lastScrollInfoRef
NoScrollInfo == [scrollTop |-> 0, height |-> 0, scrollHeight |-> 0]
\* the snapshot of the scroll container while the list is mounted at the top
MountScrollInfo == [scrollTop |-> 0, height |-> 10, scrollHeight |-> 6]

\* variant: the catch block forgets the cached heights
updateScrollHeightForgets(sc, resolved, info) ==
    IF resolved
    THEN [sc EXCEPT !.viewHeight = info.height, !.scrollHeight = info.scrollHeight,
                    !.lastScrollInfo = info, !.returned = info, !.rejected = FALSE]
    ELSE [sc EXCEPT !.viewHeight = 0, !.scrollHeight = 0,
                    !.returned = sc.lastScrollInfo, !.rejected = TRUE]

\* updateScrollHeight() after getScrollViewInfo() resolved with info or rejected
updateScrollHeight(sc, resolved, info) ==
    IF resolved
    THEN [sc EXCEPT !.viewHeight = info.height, !.scrollHeight = info.scrollHeight,
                    !.lastScrollInfo = info, !.returned = info, !.rejected = FALSE]
    ELSE [sc EXCEPT !.returned = sc.lastScrollInfo, !.rejected = TRUE]

\* await updateScrollHeight() settles, its query resolved with info or rejected;
\* clearObservers(); createSegmentList(); setRenderList(newRenderList);
\* initHeight(index) started for every page
InitResegmentWith(resolved, info) ==
    /\ initPc = "scroll"
    /\ scroll' = updateScrollHeight(scroll, resolved, info)
    /\ observers' = EmptyMap
    /\ observerCreating' = {}
    /\ subPageMap' = EmptyMap
    /\ segmentList' = Segmentation(initList, segmentNum)
    /\ renderList' = InitialRenderList(segmentList')
    /\ epoch' = epoch + 1
    /\ roundTrip' = EmptyMap
    /\ IF Len(segmentList') > 0
       THEN /\ measuring' = measuring \cup
                   {Measure(i, "init") : i \in 0..(Len(segmentList') - 1)}
            /\ initPc' = "heights"
            /\ UNCHANGED <<initializing, isCompleted>>
       ELSE /\ initPc' = "idle"
            /\ isCompleted' = TRUE
            /\ initializing' = FALSE
            /\ UNCHANGED measuring
    /\ UNCHANGED <<nav, cleanup, view,
                   list, listRef, initList, segmentNum, detached, probes, retryTimers,
                   adjacentTimers, batchFrames, headerHeight, events>>

\* the same with a scroll container that answers its query
InitResegment == InitResegmentWith(TRUE, MountScrollInfo)

\* await updateScrollHeight() resolves; clearObservers(); the segmenter passed
\* by the caller throws inside createSegmentList(): initRenderList rejects there
InitSegmenterThrows ==
    /\ initPc = "scroll"
    /\ observers' = EmptyMap
    /\ observerCreating' = {}
    /\ subPageMap' = EmptyMap
    /\ epoch' = epoch + 1
    /\ roundTrip' = EmptyMap
    /\ initPc' = "rejected"
    /\ scroll' = updateScrollHeight(scroll, TRUE, MountScrollInfo)
    /\ UNCHANGED <<nav, cleanup, view,
                   list, listRef, initList, segmentNum, segmentList, renderList,
                   detached, probes, retryTimers, measuring, adjacentTimers,
                   batchFrames, initializing, isCompleted, headerHeight, events>>

\* Promise.allSettled(initHeight...) settles: the first createBatch is scheduled
InitHeightsSettled ==
    /\ initPc = "heights"
    /\ \A t \in measuring : t.kind # "init"
    /\ batchFrames' = batchFrames \cup {0}
    /\ isCompleted' = TRUE
    /\ initializing' = FALSE
    /\ initPc' = "idle"
    /\ UNCHANGED <<nav, cleanup, scroll, view,
                   list, listRef, initList, segmentNum, segmentList, renderList,
                   subPageMap, observers, detached, observerCreating, probes,
                   retryTimers, measuring, adjacentTimers, headerHeight, epoch, events,
                   roundTrip>>

\* requestAnimationFrame(createBatch) fires for batch b
CreateBatch(b) ==
    /\ b \in batchFrames
    /\ LET start == b * batchSize
           end == Min(start + batchSize, Len(segmentList))
       IN  /\ RequestObservers(start..(end - 1))
           /\ batchFrames' = (batchFrames \ {b}) \cup
                                (IF end < Len(segmentList) THEN {b + 1} ELSE {})
    /\ UNCHANGED <<nav, cleanup, scroll, view,
                   list, listRef, initList, segmentNum, segmentList, renderList,
                   subPageMap, observers, detached, retryTimers, measuring,
                   adjacentTimers, initializing, isCompleted, initPc, headerHeight,
                   epoch, events, roundTrip>>

\* ------------------------------------------------ createIntersectionObserver
\* observersRef.current.set(index, observer): an entry it overwrites stays connected
InstallObserver(index, req) ==
    /\ observers' = MapSet(observers, index, req)
    /\ detached' = IF Has(observers, index)
                   THEN detached \cup {Watcher(index, observers[index])}
                   ELSE detached

\* variant: one more retry
ShouldRetryAgain(elementExists, retryCount) == ~elementExists /\ retryCount <= MaxRetries

\* !elementExists && retryCount < 3
ShouldRetry(elementExists, retryCount) == ~elementExists /\ retryCount < MaxRetries

\* the delay of the retry after the probe number retryCount, in ms
RetryDelay(retryCount) == 50 + retryCount * 50

\* variant: the catch block does not remove the creating mark
CreatingAfterNoCatch(index, elementExists, created) ==
    IF elementExists /\ ~created THEN observerCreating ELSE observerCreating \ {index}

\* observerCreatingRef.current.delete(index): before the retry, when the
\* element is absent, after observersRef.set, and in the catch block
CreatingAfter(index, elementExists, created) == observerCreating \ {index}

\* await checkElementExists(pageClassSelector) resolves with elementExists;
\* created is whether Taro.createIntersectionObserver(...).observe(...) returned
ProbeAnswered(p, elementExists, created) ==
    /\ p \in probes
    /\ events' = IF elementExists THEN events ELSE events + 1
    /\ probes' = probes \ {p}
    /\ observerCreating' = CreatingAfter(p.index, elementExists, created)
    /\ IF ShouldRetry(elementExists, p.retryCount)
       THEN /\ retryTimers' = retryTimers \cup {Probe(p.index, p.retryCount + 1, p.req)}
            /\ UNCHANGED <<observers, detached>>
       ELSE /\ UNCHANGED retryTimers
            /\ IF elementExists /\ created
               THEN InstallObserver(p.index, p.req)
               ELSE UNCHANGED <<observers, detached>>
    /\ UNCHANGED <<nav, cleanup, scroll, view,
                   list, listRef, initList, segmentNum, segmentList, renderList,
                   subPageMap, measuring, adjacentTimers, batchFrames, initializing,
                   isCompleted, initPc, headerHeight, epoch, roundTrip>>

\* the same within the bound on the probes that find no element
ProbeDone(p, elementExists, created) ==
    /\ elementExists \/ events < MaxEvents
    /\ ProbeAnswered(p, elementExists, created)

\* the retry timer fires: createIntersectionObserver(index, retryCount + 1)
RetryFire(t) ==
    /\ t \in retryTimers
    /\ retryTimers' = retryTimers \ {t}
    /\ IF Installable({t.index}) # {}
       THEN /\ observerCreating' = observerCreating \cup {t.index}
            /\ probes' = probes \cup {t}
       ELSE UNCHANGED <<observerCreating, probes>>
    /\ UNCHANGED <<nav, cleanup, scroll, view,
                   list, listRef, initList, segmentNum, segmentList, renderList,
                   subPageMap, observers, detached, measuring, adjacentTimers,
                   batchFrames, initializing, isCompleted, initPc, headerHeight, epoch,
                   events, roundTrip>>

\* ------------------------------------------------- observer.observe callback
\* variant: the threshold test written with < instead of <=
IsLeaveStrict(ratio, isIntersecting) == ~isIntersecting \/ ratio < INTERSECTION_THRESHOLD

\* !isIntersecting || intersectionRatio <= INTERSECTION_THRESHOLD
IsLeave(ratio, isIntersecting) == ~isIntersecting \/ ratio <= INTERSECTION_THRESHOLD

\* variant: the leave branch always falls back to the estimate
LeaveUpdateEstimate(prevList, index) ==
    IF IsArray(PageAt(prevList, index))
    THEN SetPage(prevList, index, Placeholder(guessItemHeight * SegLen(index)))
    ELSE prevList

\* the updater of the leave branch
LeaveUpdate(prevList, index) ==
    IF IsArray(PageAt(prevList, index))
    THEN SetPage(prevList, index,
                 Placeholder(PageHeightOr(index, guessItemHeight * SegLen(index))))
    ELSE prevList

\* variant: the enter branch renders the first segment's items
EnterUpdateFirst(prevList, index) ==
    IF ~IsArray(PageAt(prevList, index))
    THEN SetPage(prevList, index,
                 Rendered(IF Len(segmentList) > 0 THEN segmentList[1] ELSE <<>>))
    ELSE prevList

\* the updater of the enter branch
EnterUpdate(prevList, index) ==
    IF ~IsArray(PageAt(prevList, index))
    THEN SetPage(prevList, index,
                 Rendered(IF index < Len(segmentList) THEN segmentList[index + 1] ELSE <<>>))
    ELSE prevList

\* history of a segment's swaps: the height it added to later offsets while
\* Rendered, kept from the swap to Placeholder until a measurement arrives
SwappedOut(index, swapped) ==
    IF swapped /\ index < Len(segmentList)
    THEN MapSet(roundTrip, index, [stage |-> "out", height |-> WalkedHeight(index)])
    ELSE roundTrip
SwappedIn(index, swapped) ==
    IF swapped /\ Has(roundTrip, index) /\ roundTrip[index].stage = "out"
    THEN MapSet(roundTrip, index, [stage |-> "back", height |-> roundTrip[index].height])
    ELSE IF swapped THEN MapDelete(roundTrip, index) ELSE roundTrip

\* the platform delivers an overlap signal to connected watcher w
ObserverCallback(w, ratio, isIntersecting) ==
    /\ w \in LiveWatchers
    /\ events < MaxEvents
    /\ events' = events + 1
    /\ IF IsLeave(ratio, isIntersecting)
       THEN /\ renderList' = LeaveUpdate(renderList, w.index)
            /\ roundTrip' = SwappedOut(w.index, renderList' # renderList)
            /\ UNCHANGED measuring
       ELSE /\ renderList' = EnterUpdate(renderList, w.index)
            /\ roundTrip' = SwappedIn(w.index, renderList' # renderList)
            /\ measuring' = measuring \cup {Measure(w.index, "enter")}
    /\ UNCHANGED <<nav, cleanup, scroll, view,
                   list, listRef, initList, segmentNum, segmentList, subPageMap,
                   observers, detached, observerCreating, probes, retryTimers,
                   adjacentTimers, batchFrames, initializing, isCompleted, initPc,
                   headerHeight, epoch>>

\* --------------------------------------------------------------- initHeight
\* what getPageInfo(index) can resolve with
PageInfos(index) ==
    {[height |-> h, items |-> it] :
        h \in PageHeights, it \in SeqsUpTo(ItemHeights, SegLen(index))}

\* the two answers of a platform that reports either nothing or one full layout
CoarseInfos(index) ==
    {[height |-> 0, items |-> <<>>],
     [height |-> 7, items |-> [k \in 1..SegLen(index) |-> 5]]}

\* variant: a segment counts as rendered when its measured height is not zero
SubPageByHeight(index, pageInfo) ==
    [height |-> OrElse(pageInfo.height, SegLen(index) * guessItemHeight),
     rendered |-> pageInfo.height # 0,
     items |-> pageInfo.items,
     length |-> SegLen(index)]

\* pageData of initHeight
SubPage(index, pageInfo) ==
    [height |-> OrElse(pageInfo.height, SegLen(index) * guessItemHeight),
     rendered |-> Len(pageInfo.items) # 0,
     items |-> pageInfo.items,
     length |-> SegLen(index)]

\* variant: the measured height replaces the entry whatever its variant
HeightUpdateAnyVariant(prevList, index, height) ==
    IF PageAt(prevList, index).kind \in {"height", "items"}
    THEN SetPage(prevList, index, Placeholder(height))
    ELSE prevList

\* the updater of initHeight(index, true)
HeightUpdate(prevList, index, height) ==
    IF PageAt(prevList, index).kind = "height" /\ PageAt(prevList, index).height # height
    THEN SetPage(prevList, index, Placeholder(height))
    ELSE prevList

\* await queryUtils.getPageInfo(index) resolves inside initHeight
MeasureDone(t, pageInfo) ==
    /\ t \in measuring
    /\ pageInfo \in PageInfos(t.index)
    /\ measuring' = measuring \ {t}
    /\ subPageMap' = MapSet(subPageMap, t.index, SubPage(t.index, pageInfo))
    /\ roundTrip' = MapDelete(roundTrip, t.index)
    /\ IF t.kind = "enter"
       THEN /\ renderList' = HeightUpdate(renderList, t.index,
                                          SubPage(t.index, pageInfo).height)
            /\ adjacentTimers' = adjacentTimers \cup {t.index}
       ELSE UNCHANGED <<renderList, adjacentTimers>>
    /\ UNCHANGED <<nav, cleanup, scroll, view,
                   list, listRef, initList, segmentNum, segmentList, observers,
                   detached, observerCreating, probes, retryTimers, batchFrames,
                   initializing, isCompleted, initPc, headerHeight, epoch, events>>

\* variant: one segment before and one after
adjacentPagesNear(index) == {index - 1, index + 1}

\* const adjacentPages = [index - 1, index + 1, index + 2]
adjacentPages(index) == {index - 1, index + 1, index + 2}

\* the 100 ms timer of adjacentObserverDebounce fires for the callback of index
AdjacentFire(index) ==
    /\ index \in adjacentTimers
    /\ adjacentTimers' = adjacentTimers \ {index}
    /\ RequestObservers(adjacentPages(index))
    /\ UNCHANGED <<nav, cleanup, scroll, view,
                   list, listRef, initList, segmentNum, segmentList, renderList,
                   subPageMap, observers, detached, retryTimers, measuring,
                   batchFrames, initializing, isCompleted, initPc, headerHeight, epoch,
                   events, roundTrip>>

\* --------------------------------------------------------- getPageScrollTop
\* the loop of getPageScrollTop: the record heights of the pages before pageIndex
RECURSIVE RecordHeightsBefore(_)
RecordHeightsBefore(pageIndex) ==
    IF pageIndex <= 0 THEN 0
    ELSE RecordHeightsBefore(pageIndex - 1) + PageHeightOr(pageIndex - 1, 0)

getPageScrollTop(index) ==
    IF index > 0 /\ HasPage(index)
    THEN [scrollTop |-> headerHeight + RecordHeightsBefore(index),
          height |-> PageData(index).height,
          rendered |-> PageData(index).rendered,
          pageIndex |-> index]
    ELSE [scrollTop |-> headerHeight, height |-> 0, rendered |-> FALSE, pageIndex |-> index]

\* --------------------------------------------------------- updateRenderList
\* the caller calls methods.updateRenderList(): initHeight(index) is started for
\* every entry of the render list; the continuation after Promise.allSettled
\* copies the render list and calls the callback, which changes no variable
UpdateRenderList ==
    /\ events < MaxEvents
    /\ events' = events + 1
    /\ measuring' = measuring \cup
           {Measure(i, "refresh") : i \in 0..(Len(renderList) - 1)}
    /\ UNCHANGED <<nav, cleanup, scroll, view,
                   list, listRef, initList, segmentNum, segmentList, renderList,
                   subPageMap, observers, detached, observerCreating, probes,
                   retryTimers, adjacentTimers, batchFrames, initializing, isCompleted,
                   initPc, headerHeight, epoch, roundTrip>>

\* --------------------------------------------------- throttle, handleScroll
\* Time is counted in ticks of 50 ms and starts at 1, so that 0 can stand for
\* null in startTime, timer, lastArgs and the end-of-scroll timer. A scroll
\* event is identified by the tick it arrives in: at most one arrives per tick.
ScrollIdle(env) ==
    [env |-> env, now |-> 1,
     startTime |-> 0, timer |-> 0, lastArgs |-> 0,
     \* history: the last call, the last execution of fn, the last forced
     \* execution and its distance from the one before
     lastCall |-> 0,
     run |-> [arg |-> 0, at |-> 0, forced |-> FALSE],
     lastForced |-> 0, forcedGap |-> 0,
     \* history: the bursts of calls so far, a burst ending when no call
     \* arrives for delay
     bursts |-> 0,
     pending |-> 0,
     scrollEndTimer |-> 0,
     \* history: the end-of-scroll notifications
     ended |-> 0, lastEnd |-> 0,
     \* viewHeightRef, scrollHeightRef, lastScrollInfoRef
     viewHeight |-> 0, scrollHeight |-> 0, lastScrollInfo |-> NoScrollInfo,
     \* history: what the last call of updateScrollHeight returned, and whether
     \* its query was rejected
     returned |-> NoScrollInfo, rejected |-> FALSE]

\* variant: the forced execution comes as soon as delay has passed
MustRunEarly(curTime, startTime) == curTime - startTime >= ThrottleDelay

\* curTime - startTime >= mustRunDelay
MustRun(curTime, startTime) == curTime - startTime >= MustRunDelay

\* fn.apply(null, args): handleScroll's async function starts and suspends in
\* getScrollViewInfo()
Execute(th, args, forced) ==
    [th EXCEPT !.run = [arg |-> args, at |-> th.now, forced |-> forced],
               !.pending = th.pending + 1]

\* the function throttle returns, called with args at th.now
Throttled(th, args) ==
    LET curTime == th.now
        start == IF th.startTime = 0 THEN curTime ELSE th.startTime
        bursts == IF th.lastCall = 0 \/ curTime - th.lastCall >= ThrottleDelay
                  THEN th.bursts + 1
                  ELSE th.bursts
    IN  IF MustRun(curTime, start)
        THEN [Execute(th, args, TRUE) EXCEPT !.startTime = curTime,
                                             !.lastArgs = 0,
                                             !.timer = 0,
                                             !.lastCall = args,
                                             !.bursts = bursts,
                                             !.lastForced = curTime,
                                             !.forcedGap =
                                                 IF th.lastForced = 0 THEN 0
                                                 ELSE curTime - th.lastForced]
        ELSE [th EXCEPT !.startTime = start,
                        !.lastArgs = args,
                        !.timer = curTime + ThrottleDelay,
                        !.lastCall = args,
                        !.bursts = bursts]

\* the callback of throttle's setTimeout
Trailing(th) ==
    IF th.lastArgs # 0
    THEN [Execute(th, th.lastArgs, FALSE) EXCEPT !.lastArgs = 0, !.timer = 0]
    ELSE [th EXCEPT !.timer = 0]

\* no timer is due: the clock moves on by one tick
Advance ==
    /\ scroll.now < MaxTime
    /\ scroll.timer = 0 \/ scroll.timer > scroll.now
    /\ scroll.scrollEndTimer = 0 \/ scroll.scrollEndTimer > scroll.now
    /\ scroll' = [scroll EXCEPT !.now = scroll.now + 1]
    /\ UNCHANGED <<nav, events, engineState>>

\* the ScrollView reports a scroll: onScrollHandler calls handleScroll(event)
ScrollEvent ==
    /\ scroll.lastCall < scroll.now
    /\ scroll' = Throttled(scroll, scroll.now)
    /\ UNCHANGED <<nav, events, engineState>>

\* throttle's timer expires
ThrottleFire ==
    /\ scroll.timer # 0
    /\ scroll.timer <= scroll.now
    /\ scroll' = Trailing(scroll)
    /\ UNCHANGED <<nav, events, engineState>>

\* startPage and endPage of handleScroll; with no segments the divisor is 0,
\* avgPageLength is Infinity (or NaN for an empty list) and the range is empty
ScrollRange(info) ==
    IF Len(segmentList) = 0 THEN {}
    ELSE LET avgPageLength == Max(1, list.len \div Len(segmentList))
             currentPage == info.scrollTop \div (guessItemHeight * avgPageLength)
             visibleRange == CeilDiv(info.height, guessItemHeight * avgPageLength) + 1
             startPage == Max(0, currentPage - 1)
             endPage == Min(Len(segmentList) - 1, currentPage + visibleRange + 1)
         IN  startPage..endPage

\* pageIndex < startPage || pageIndex > endPage; every comparison with NaN is false
OutOfRange(pageIndex, info) ==
    IF Len(segmentList) = 0 THEN list.len > 0
    ELSE pageIndex \notin ScrollRange(info)

\* the render list after handleScroll's updates
ScrollUpdate(prevList, info) ==
    [i \in 1..Len(prevList) |->
        IF OutOfRange(i - 1, info) THEN LeaveUpdate(prevList, i - 1)[i] ELSE prevList[i]]

\* a run of handleScroll's function resumes: getScrollViewInfo() resolved with
\* info, or rejected
HandleScrollRun(resolved, info) ==
    /\ scroll.pending > 0
    /\ IF resolved /\ scroll.env # "WEAPP"
       THEN /\ renderList' = ScrollUpdate(renderList, info)
            /\ RequestObservers(ScrollRange(info))
            /\ scroll' = [scroll EXCEPT !.pending = scroll.pending - 1,
                                        !.lastScrollInfo = info,
                                        !.scrollEndTimer = scroll.now + ScrollEndDelay]
       ELSE /\ scroll' = [scroll EXCEPT !.pending = scroll.pending - 1,
                                        !.lastScrollInfo =
                                            IF resolved THEN info ELSE scroll.lastScrollInfo]
            /\ UNCHANGED <<renderList, observerCreating, probes>>
    /\ UNCHANGED <<nav, cleanup, events, view,
                   list, listRef, initList, segmentNum, segmentList,
                   subPageMap, observers, detached, retryTimers, measuring,
                   adjacentTimers, batchFrames, initializing, isCompleted, initPc,
                   headerHeight, epoch, roundTrip>>

\* scrollEndTimerRef's timer expires: execIfFunction(onScrollEndRef.current)
ScrollEndFire ==
    /\ scroll.scrollEndTimer # 0
    /\ scroll.scrollEndTimer <= scroll.now
    /\ scroll' = [scroll EXCEPT !.scrollEndTimer = 0,
                                !.ended = scroll.ended + 1,
                                !.lastEnd = scroll.now]
    /\ UNCHANGED <<nav, events, engineState>>

\* ------------------------------------------------- renderPageContent, VirtualItem
\* nothing was rendered yet
NoView == [failing |-> {}, pages |-> <<>>]

\* <View>...</View> of the catch block (its text says "render error")
ErrorView == [view |-> "error"]
\* what the caller's renderItem returns for an item it can render
Content(item, pageIndex, index) ==
    [view |-> "item", item |-> item, pageIndex |-> pageIndex, index |-> index]

\* variant: no try around renderItem, the exception leaves the component
renderedContentUncaught(item, pageIndex, index, failing) ==
    IF item \in failing THEN [view |-> "thrown"] ELSE Content(item, pageIndex, index)

\* renderedContent of VirtualItem; renderItem throws for the items of failing
renderedContent(item, pageIndex, index, failing) ==
    IF item \in failing THEN ErrorView ELSE Content(item, pageIndex, index)

VirtualItem(item, pageIndex, index, failing) ==
    [className |-> "vl-item",
     id |-> <<"vl-item", pageIndex, index>>,
     children |-> renderedContent(item, pageIndex, index, failing)]

renderPageContent(page, pageIndex, failing) ==
    [className |-> <<"vl-page", pageIndex>>,
     children |-> IF ~IsArray(page)
                  THEN <<[height |-> page.height]>>
                  ELSE [i \in 1..Len(page.items) |->
                           VirtualItem(page.items[i], pageIndex, i - 1, failing)]]

\* the component renders; renderItem throws for the items of failing
Render(failing) ==
    /\ view' = [failing |-> failing,
                pages |-> [i \in 1..Len(renderList) |->
                              renderPageContent(renderList[i], i - 1, failing)]]
    /\ UNCHANGED <<nav, events, scroll, list, listRef, initList, segmentNum, segmentList,
                   renderList, subPageMap, observers, detached, observerCreating, probes,
                   retryTimers, measuring, adjacentTimers, batchFrames, initializing,
                   isCompleted, initPc, headerHeight, epoch, roundTrip, cleanup>>

\* ------------------------------------------------------------------ unmount
\* a clearObservers whose loop ends at the first disconnect that throws
StillConnectedAbort(threw, stuck) ==
    IF threw = {} THEN {}
    ELSE {Watcher(i, observers[i]) :
             i \in {j \in DOMAIN observers : \E t \in threw : j >= t}}
\* the watchers of observersRef that clearObservers leaves connected, when the
\* disconnect of those in threw throws and leaves those in stuck connected
StillConnected(threw, stuck) == {Watcher(i, observers[i]) : i \in stuck}

\* the cleanup of the last effect runs clearObservers()
Teardown(threw, stuck) ==
    /\ events < MaxEvents
    /\ events' = events + 1
    /\ detached' = detached \cup StillConnected(threw, stuck)
    /\ observers' = EmptyMap
    /\ observerCreating' = {}
    /\ subPageMap' = EmptyMap
    /\ roundTrip' = EmptyMap
    /\ cleanup' = [calls |-> cleanup.calls + 1,
                   threw |-> {Watcher(i, observers[i]) : i \in threw},
                   idle |-> /\ observers = EmptyMap
                            /\ observerCreating = {}
                            /\ subPageMap = EmptyMap,
                   failures |-> cleanup.failures + Cardinality(threw),
                   disconnected |-> cleanup.disconnected
                                        + Cardinality(DOMAIN observers \ threw)]
    /\ UNCHANGED <<nav, scroll, view,
                   list, listRef, initList, segmentNum, segmentList, renderList,
                   probes, retryTimers, measuring, adjacentTimers, batchFrames,
                   initializing, isCompleted, initPc, headerHeight, epoch>>

\* --------------------------------------------------- scrollTo, scrollIntoView
\* what checkElementExists can resolve with: the element has a size, it has
\* none, or the query did not answer within 5 s (resolved as false)
ProbeAnswers == {"present", "absent", "timeout"}
\* what getScrollViewNode can resolve with
NodeAnswers == {"ok", "noScrollTo", "missing"}
\* what getScrollViewInfo can resolve with
ScrollInfos ==
    {[scrollTop |-> 0, height |-> 10, scrollHeight |-> 6],
     [scrollTop |-> 6, height |-> 10, scrollHeight |-> 30]}
\* the arguments of the caller's scrollTo / scrollIntoView call; a call never
\* changes the state of the list, so one call per behaviour shows them all
NavIndices == {0, 5}
OffsetTops == {0, 4}

\* everything but events and nav
engine == <<list, listRef, initList, segmentNum, segmentList, renderList, subPageMap,
            observers, detached, observerCreating, probes, retryTimers, measuring,
            adjacentTimers, batchFrames, initializing, isCompleted, initPc,
            headerHeight, epoch, roundTrip, cleanup, scroll, view>>

\* a scroll-to-element request that drops the caller's offsetTop
ExactRequestUnadjusted(offsetTop) == [kind |-> "exact", offsetTop |-> 0]
\* queryUtils.scrollToElement(itemSelector, { offsetTop }) is called
ExactRequest(offsetTop) == [kind |-> "exact", offsetTop |-> offsetTop]
\* a direct scroll that is animated
JumpAnimated(top) == [kind |-> "jump", top |-> top, animated |-> TRUE]
\* scrollViewNode.scrollTo({ top, animated: false }) is called
Jump(top) == [kind |-> "jump", top |-> top, animated |-> FALSE]

\* the loop of scrollTo that finds the page of the item and its index in it
RECURSIVE PageOfLoop(_, _, _)
PageOfLoop(index, i, currentCount) ==
    IF i >= Len(segmentList)
    THEN [pageIndex |-> 0, itemIndexInPage |-> index]
    ELSE IF currentCount + SegLen(i) > index
         THEN [pageIndex |-> i, itemIndexInPage |-> index - currentCount]
         ELSE PageOfLoop(index, i + 1, currentCount + SegLen(i))

\* the sum of calculateEstimatedScrollTop over the pages before pageIndex
RECURSIVE SumPageHeights(_)
SumPageHeights(pageIndex) ==
    IF pageIndex <= 0 THEN 0
    ELSE SumPageHeights(pageIndex - 1)
         + PageHeightOr(pageIndex - 1, SegLen(pageIndex - 1) * guessItemHeight)

calculateEstimatedScrollTop(index, pageIndex, itemIndexInPage) ==
    IF getItemScrollTop(index).rendered
    THEN getItemScrollTop(index).scrollTop
    ELSE SumPageHeights(pageIndex) + itemIndexInPage * guessItemHeight + headerHeight

\* the call returns result
Settled(n, result) == [n EXCEPT !.pc = "done", !.result = result]
\* execIfFunction(onScrollToEnd); return true
Succeeded(n) == [Settled(n, TRUE) EXCEPT !.endCalls = n.endCalls + 1]

\* scrollTo(index, offsetTop) up to its first await, continuing the call n
ScrollToCall(n, index, offsetTop) ==
    IF ~isCompleted
    THEN Settled([n EXCEPT !.index = index, !.offsetTop = offsetTop], FALSE)
    ELSE [n EXCEPT !.pc = "exists",
                   !.index = index,
                   !.offsetTop = offsetTop,
                   !.pageIndex = PageOfLoop(index, 0, 0).pageIndex,
                   !.itemIndexInPage = PageOfLoop(index, 0, 0).itemIndexInPage]

\* the caller calls methods.scrollTo(index, offsetTop)
ScrollToStart(index, offsetTop) ==
    /\ nav.pc = "idle"
    /\ events < MaxEvents
    /\ events' = events + 1
    /\ nav' = ScrollToCall(NavIdle, index, offsetTop)
    /\ UNCHANGED engine

\* await checkElementExists(itemSelector) resolves: the first presence check
ScrollToChecked(answer) ==
    /\ nav.pc = "exists"
    /\ IF answer = "present"
       THEN nav' = [nav EXCEPT !.pc = "exact",
                               !.checked = answer,
                               !.log = Append(nav.log, ExactRequest(nav.offsetTop))]
       ELSE LET est == calculateEstimatedScrollTop(nav.index, nav.pageIndex,
                                                   nav.itemIndexInPage)
                n == [nav EXCEPT !.estimatedScrollTop = est, !.checked = answer]
            IN  nav' = IF est >= 0 THEN [n EXCEPT !.pc = "info"] ELSE Settled(n, FALSE)
    /\ UNCHANGED <<engine, events>>

\* await getScrollViewInfo() settles in the estimate branch
ScrollToInfo(resolved, vlInfo) ==
    /\ nav.pc = "info"
    /\ nav' = IF resolved
              THEN [nav EXCEPT !.pc = "node", !.vlInfo = "resolved",
                               !.scrollHeight = vlInfo.scrollHeight]
              ELSE Settled([nav EXCEPT !.vlInfo = "rejected"], FALSE)
    /\ UNCHANGED <<engine, events>>

\* await getScrollViewNode() resolves: the estimate jump, then the re-check
ScrollToNode(node) ==
    /\ nav.pc = "node"
    /\ nav' = IF node = "ok"
              THEN [nav EXCEPT
                       !.pc = "recheck",
                       !.node = node,
                       !.log = Append(nav.log,
                                      Jump(Min(Max(nav.estimatedScrollTop - nav.offsetTop, 0),
                                               nav.scrollHeight)))]
              ELSE Settled([nav EXCEPT !.node = node], FALSE)
    /\ UNCHANGED <<engine, events>>

\* await checkElementExists(itemSelector) resolves: the re-check after the jump
ScrollToRechecked(answer) ==
    /\ nav.pc = "recheck"
    /\ nav' = IF answer = "present"
              THEN [nav EXCEPT !.pc = "refine",
                               !.rechecked = answer,
                               !.log = Append(nav.log, ExactRequest(nav.offsetTop))]
              ELSE Succeeded([nav EXCEPT !.rechecked = answer])
    /\ UNCHANGED <<engine, events>>

\* await scrollToElement(...) resolves with success, in either branch
ScrollToElementDone(success) ==
    /\ nav.pc \in {"exact", "refine"}
    /\ nav' = IF success
              THEN Succeeded([nav EXCEPT !.scrolled = "ok"])
              ELSE Settled([nav EXCEPT !.scrolled = "failed"], FALSE)
    /\ UNCHANGED <<engine, events>>

\* the caller calls methods.scrollIntoView(index, offsetTop)
ScrollIntoViewStart(index, offsetTop) ==
    /\ nav.pc = "idle"
    /\ events < MaxEvents
    /\ events' = events + 1
    /\ nav' = [NavIdle EXCEPT !.pc = "view", !.index = index, !.offsetTop = offsetTop]
    /\ UNCHANGED engine

\* a visibility test that looks at the top edge of the item only
IsInViewTopOnly(info, index) == info.scrollTop <= getItemScrollTop(index).scrollTop
\* info.scrollTop <= targetScrollTop && info.scrollTop + info.height >= ...
IsInView(info, index) ==
    /\ info.scrollTop <= getItemScrollTop(index).scrollTop
    /\ info.scrollTop + info.height
           >= getItemScrollTop(index).scrollTop + getItemScrollTop(index).height

\* await getScrollViewInfo() settles in scrollIntoView
ScrollIntoViewInfo(resolved, info) ==
    /\ nav.pc = "view"
    /\ nav' = IF ~resolved THEN Settled([nav EXCEPT !.viewInfo = "rejected"], FALSE)
              ELSE LET n == [nav EXCEPT !.viewInfo = "resolved",
                                        !.viewTop = info.scrollTop,
                                        !.viewHeight = info.height]
                   IN  IF IsInView(info, nav.index) THEN Succeeded(n)
                       ELSE ScrollToCall(n, nav.index, nav.offsetTop)
    /\ UNCHANGED <<engine, events>>

\* the steps of a scrollTo call that was made
ScrollToStep ==
    \/ \E a \in ProbeAnswers : ScrollToChecked(a)
    \/ \E r \in BOOLEAN, info \in ScrollInfos : ScrollToInfo(r, info)
    \/ \E n \in NodeAnswers : ScrollToNode(n)
    \/ \E a \in ProbeAnswers : ScrollToRechecked(a)
    \/ \E ok \in BOOLEAN : ScrollToElementDone(ok)

\* ------------------------------------------------------------ specifications
\* lengths of the collections the caller supplies while the engine runs
UpdateLens == 0..2

\* the state after the first render and its effects: the mount effect has
\* called initRenderList(), which is suspended in updateHeaderHeight()
MountedOn(c, segNum, env) ==
    /\ list = c
    /\ listRef = c
    /\ initList = c
    /\ segmentNum = segNum
    /\ segmentList = <<>>
    /\ renderList = <<>>
    /\ subPageMap = EmptyMap
    /\ observers = EmptyMap
    /\ detached = {}
    /\ observerCreating = {}
    /\ probes = {}
    /\ retryTimers = {}
    /\ measuring = {}
    /\ adjacentTimers = {}
    /\ batchFrames = {}
    /\ initializing = TRUE
    /\ isCompleted = FALSE
    /\ initPc = "header"
    /\ headerHeight = 0
    /\ epoch = 0
    /\ events = 0
    /\ roundTrip = EmptyMap
    /\ nav = NavIdle
    /\ cleanup = NoCleanup
    /\ scroll = ScrollIdle(env)
    /\ view = NoView

Mounted(c, segNum) == MountedOn(c, segNum, "WEAPP")

Init == \E len \in UpdateLens : Mounted(Collection(1, len), Fixed(1))

Watching ==
    \/ \E h \in HeaderHeights : InitHeaderDone(h)
    \/ InitResegment
    \/ InitHeightsSettled
    \/ \E b \in batchFrames : CreateBatch(b)
    \/ \E p \in probes, e \in BOOLEAN, c \in BOOLEAN : ProbeDone(p, e, c)
    \/ \E t \in retryTimers : RetryFire(t)
    \/ \E w \in LiveWatchers, r \in Ratios, i \in BOOLEAN : ObserverCallback(w, r, i)
    \/ \E i \in adjacentTimers : AdjacentFire(i)

Next ==
    \/ \E len \in UpdateLens : SetList(len)
    \/ Watching
    \/ \E t \in measuring : \E pi \in CoarseInfos(t.index) : MeasureDone(t, pi)

Spec == Init /\ [][Next]_vars

\* the caller never replaces the collection
SteadyLens == 0..4
SegmentNums == {Fixed(0), Fixed(2), Fixed(3), SMART}
InitSteady ==
    \E len \in SteadyLens, segNum \in SegmentNums : Mounted(Collection(1, len), segNum)

NextSteady ==
    \/ Watching
    \/ \E t \in measuring : \E pi \in PageInfos(t.index) : MeasureDone(t, pi)

SpecSteady == InitSteady /\ [][NextSteady]_vars

\* a list of three segments of two items, measured by a platform that reports
\* either nothing or one uniform layout (segment height 7, every item 5)
ScenarioList == Collection(1, 6)
InitScenario == Mounted(ScenarioList, Fixed(2))
NextScenario ==
    \/ Watching
    \/ \E t \in measuring : \E pi \in CoarseInfos(t.index) : MeasureDone(t, pi)
SpecScenario == InitScenario /\ [][NextScenario]_vars

\* the list of three segments with a caller that calls scrollTo
NextNav ==
    \/ Watching
    \/ \E t \in measuring : \E pi \in CoarseInfos(t.index) : MeasureDone(t, pi)
    \/ \E i \in NavIndices, o \in OffsetTops : ScrollToStart(i, o)
    \/ ScrollToStep
SpecNav == InitScenario /\ [][NextNav]_vars

\* a list of two segments with a caller that calls scrollIntoView
ViewList == Collection(1, 4)
ViewIndices == {0, 3}
InitView == Mounted(ViewList, Fixed(2))
NextView ==
    \/ Watching
    \/ \E t \in measuring : \E pi \in CoarseInfos(t.index) : MeasureDone(t, pi)
    \/ \E i \in ViewIndices, o \in OffsetTops : ScrollIntoViewStart(i, o)
    \/ \E r \in BOOLEAN, info \in ScrollInfos : ScrollIntoViewInfo(r, info)
    \/ ScrollToStep
SpecView == InitView /\ [][NextView]_vars

\* the list of three segments whose component is unmounted
NextTeardown ==
    \/ Watching
    \/ \E t \in measuring : \E pi \in CoarseInfos(t.index) : MeasureDone(t, pi)
    \/ \E threw \in SUBSET DOMAIN observers : \E stuck \in SUBSET threw :
           Teardown(threw, stuck)
SpecTeardown == InitScenario /\ [][NextTeardown]_vars

\* the list of three segments whose caller refreshes the heights
NextRefresh ==
    \/ Watching
    \/ \E t \in measuring : \E pi \in CoarseInfos(t.index) : MeasureDone(t, pi)
    \/ UpdateRenderList
SpecRefresh == InitScenario /\ [][NextRefresh]_vars

\* the init process up to its segmentation, for lists of every length up to
\* MaxSegmenterLen and sizes that are negative, zero, positive and smart
SegmenterLens == 0..MaxSegmenterLen
SegmenterNums == {Fixed(0 - 1), Fixed(0), Fixed(1), Fixed(3), Fixed(7), SMART}
InitSegmenter ==
    \E len \in SegmenterLens, segNum \in SegmenterNums : Mounted(Collection(1, len), segNum)
NextSegmenter ==
    \/ \E h \in HeaderHeights : InitHeaderDone(h)
    \/ InitResegment
SpecSegmenter == InitSegmenter /\ [][NextSegmenter]_vars

\* scroll events on a mounted list, on either platform; the timing of the
\* throttle and of the end-of-scroll timer does not depend on the list
InitScroll == \E env \in Envs : MountedOn(Collection(1, 0), Fixed(1), env)
NextScroll ==
    \/ Advance
    \/ ScrollEvent
    \/ ThrottleFire
    \/ \E resolved \in BOOLEAN : \E info \in ScrollInfos : HandleScrollRun(resolved, info)
    \/ ScrollEndFire
SpecScroll == InitScroll /\ [][NextScroll]_vars

\* a list of two segments whose caller's renderItem throws for some items
NextRender ==
    \/ Watching
    \/ \E t \in measuring : \E pi \in CoarseInfos(t.index) : MeasureDone(t, pi)
    \/ \E failing \in SUBSET {Items(ViewList)[k] : k \in 1..ViewList.len} : Render(failing)
SpecRender == InitView /\ [][NextRender]_vars

\* the installs of a list of two segments, with no bound on the probes that
\* find no element: the retries bound themselves
NextRetry ==
    \/ \E h \in HeaderHeights : InitHeaderDone(h)
    \/ InitResegment
    \/ \E t \in measuring : \E pi \in CoarseInfos(t.index) : MeasureDone(t, pi)
    \/ InitHeightsSettled
    \/ \E b \in batchFrames : CreateBatch(b)
    \/ \E p \in probes : \E elementExists \in BOOLEAN : ProbeAnswered(p, elementExists, TRUE)
    \/ \E t \in retryTimers : RetryFire(t)
SpecRetry == InitView /\ [][NextRetry]_vars

\* the installs of a list of two segments that the caller may replace once;
\* the watcher's creation may throw. Every probe is answered: checkElementExists
\* resolves by its own timeout at the latest; every timer set fires.
SetListOnce(len) == list.id = 1 /\ SetList(len)
NextPending ==
    \/ \E len \in UpdateLens : SetListOnce(len)
    \/ \E h \in HeaderHeights : InitHeaderDone(h)
    \/ InitResegment
    \/ \E t \in measuring : \E pi \in CoarseInfos(t.index) : MeasureDone(t, pi)
    \/ InitHeightsSettled
    \/ \E b \in batchFrames : CreateBatch(b)
    \/ \E p \in probes : \E elementExists, created \in BOOLEAN :
           ProbeAnswered(p, elementExists, created)
    \/ \E t \in retryTimers : RetryFire(t)
FairPending ==
    /\ InitView
    /\ [][NextPending]_vars
    /\ WF_vars(\E p \in probes : \E elementExists, created \in BOOLEAN :
                   ProbeAnswered(p, elementExists, created))
    /\ WF_vars(\E t \in retryTimers : RetryFire(t))

\* a list of two segments on a platform other than the mini program, whose
\* user scrolls: the scroll handler requests watchers besides the batches, the
\* adjacent prefetch and the retry timers. The clock runs while the timer of
\* the throttle is armed, which is as far as the requests depend on it.
ScrollSnapshots == ScrollInfos \cup {[scrollTop |-> 8, height |-> 2, scrollHeight |-> 30]}
CountedScrollEvent ==
    /\ events < MaxEvents
    /\ events' = events + 1
    /\ scroll.lastCall < scroll.now
    /\ scroll' = Throttled(scroll, scroll.now)
    /\ UNCHANGED <<nav, engineState>>
AdvanceArmed ==
    /\ scroll.timer # 0
    /\ Advance
InitInstall == MountedOn(ViewList, Fixed(2), "WEB")
NextInstall ==
    \/ Watching
    \/ \E t \in measuring : \E pi \in CoarseInfos(t.index) : MeasureDone(t, pi)
    \/ CountedScrollEvent
    \/ ThrottleFire
    \/ \E resolved \in BOOLEAN : \E info \in ScrollSnapshots :
           HandleScrollRun(resolved, info)
    \/ AdvanceArmed
SpecInstall == InitInstall /\ [][NextInstall]_vars

\* the scroll that a jump of scrollTo causes: the ScrollView reports one scroll
\* event for every scroll request the call has issued
NavScrollEvent ==
    /\ scroll.bursts < Len(nav.log)
    /\ scroll.lastCall = 0 \/ scroll.now - scroll.lastCall >= ThrottleDelay
    /\ ScrollEvent

\* a list of one segment whose caller calls scrollTo, up to the end of its
\* initialization, with the scroll events that the call's jumps cause
InitNotify == \E env \in Envs : MountedOn(Collection(1, 2), Fixed(2), env)
NextNotify ==
    \/ \E h \in HeaderHeights : InitHeaderDone(h)
    \/ InitResegment
    \/ \E t \in measuring : \E pi \in CoarseInfos(t.index) : MeasureDone(t, pi)
    \/ InitHeightsSettled
    \/ ScrollToStart(0, 0)
    \/ ScrollToStep
    \/ NavScrollEvent
    \/ ThrottleFire
    \/ \E resolved \in BOOLEAN : \E info \in ScrollInfos : HandleScrollRun(resolved, info)
    \/ ScrollEndFire
    \/ Advance
SpecNotify == InitNotify /\ [][NextNotify]_vars

\* ------------------------------------------------------------------ claims
\* the vocabulary of the claims: where a segment starts, how many items the
\* segment table holds, and the segment an item lies in
RECURSIVE StartOf(_)
StartOf(s) == IF s = 0 THEN 0 ELSE StartOf(s - 1) + SegLen(s - 1)
NumItems == StartOf(Len(segmentList))
SegmentOf(i) ==
    CHOOSE s \in 0..(Len(segmentList) - 1) : StartOf(s) <= i /\ i < StartOf(s) + SegLen(s)
IsPlaceholder(page) == page.kind = "height"
IsEnterSignal(ratio, isIntersecting) == isIntersecting /\ ratio > INTERSECTION_THRESHOLD

\* C1: whenever the caller supplies a collection of a new identity the engine
\* re-segments it, also when the collection arrives while an initialization
\* is running: once no initialization is running, the segment table is the
\* segmentation of the collection supplied last.
C1_ResegmentsLatestList ==
    initPc = "idle" => segmentList = Segmentation(list, segmentNum)

\* C2: after a re-segmentation every watcher connected to the platform was
\* requested after that re-segmentation; none survives from before it.
C2_NoStaleWatcher ==
    \A w \in LiveWatchers : w.req = epoch

\* C3: an overlap signal for segment s with a ratio strictly above the
\* threshold turns a Placeholder entry s into Rendered with exactly the items
\* of segment s and starts a measurement of s; a Rendered entry s is left as
\* it is.
C3_EnterRendersSegment ==
    [][\A w \in LiveWatchers, r \in Ratios, i \in BOOLEAN :
          (/\ ObserverCallback(w, r, i)
           /\ IsEnterSignal(r, i)
           /\ w.index < Len(segmentList))
          => IF IsPlaceholder(renderList[w.index + 1])
             THEN /\ renderList' = [renderList EXCEPT
                                       ![w.index + 1] = Rendered(segmentList[w.index + 1])]
                  /\ Measure(w.index, "enter") \in measuring'
             ELSE renderList' = renderList]_vars
\* a segment that starts as Placeholder is Rendered and being measured
C3_Entered ==
    \E s \in 1..(Len(segmentList) - 1) :
        /\ Len(renderList) = Len(segmentList)
        /\ renderList[s + 1] = Rendered(segmentList[s + 1])
        /\ Measure(s, "enter") \in measuring

\* C4: an overlap signal for segment s that is not intersecting or has a
\* ratio at or below the threshold turns a Rendered entry s into a Placeholder
\* whose height is the height of the record of s when that is non-zero and
\* itemCount x guessItemHeight otherwise; a Placeholder entry s is left as it is.
C4_LeaveHidesSegment ==
    [][\A w \in LiveWatchers, r \in Ratios, i \in BOOLEAN :
          (/\ ObserverCallback(w, r, i)
           /\ ~IsEnterSignal(r, i)
           /\ w.index < Len(segmentList))
          => IF IsArray(renderList[w.index + 1])
             THEN renderList' = [renderList EXCEPT ![w.index + 1] = Placeholder(
                      IF w.index \in DOMAIN subPageMap /\ subPageMap[w.index].height # 0
                      THEN subPageMap[w.index].height
                      ELSE Len(segmentList[w.index + 1]) * guessItemHeight)]
             ELSE renderList' = renderList]_vars
\* the first segment, Rendered from the start, is a Placeholder of its
\* measured height
C4_Left ==
    /\ Len(segmentList) > 0
    /\ Len(renderList) = Len(segmentList)
    /\ 0 \in DOMAIN subPageMap
    /\ subPageMap[0].height = 7
    /\ renderList[1] = Placeholder(7)

\* the height segment s adds to the offset of every item after it
Contribution(s) ==
    getItemScrollTop(StartOf(s + 1)).scrollTop - getItemScrollTop(StartOf(s)).scrollTop

\* C5: a segment swapped from Rendered to Placeholder, and back to Rendered,
\* with no measurement arriving in between adds the same height to the offset
\* of every later item as it did before the swap.
C5_SwapKeepsContribution ==
    \A s \in DOMAIN roundTrip :
        s + 1 < Len(segmentList) => Contribution(s) = roundTrip[s].height
\* a measured first segment went out and came back, with items after it
C5_RoundTrip ==
    /\ Len(segmentList) > 1
    /\ 0 \in DOMAIN roundTrip
    /\ roundTrip[0].stage = "back"
    /\ roundTrip[0].height = 7
    /\ IsArray(renderList[1])

\* C6: the render list has one entry per segment, each entry is a Placeholder
\* or Rendered, a Rendered entry s holds the items of segment s, and the
\* segment table changes on re-segmentation only.
C6_RenderListMatchesTable ==
    /\ Len(renderList) = Len(segmentList)
    /\ \A s \in 0..(Len(renderList) - 1) :
          \/ IsPlaceholder(renderList[s + 1])
          \/ renderList[s + 1] = Rendered(segmentList[s + 1])

\* the height the claims assign to a segment before the one holding the item:
\* the record's height for a Rendered segment (the estimate while it has no
\* record), the placeholder's height otherwise
ContributedHeight(k) ==
    IF IsArray(renderList[k + 1])
    THEN IF k \in DOMAIN subPageMap /\ subPageMap[k].height # 0
         THEN subPageMap[k].height
         ELSE Len(segmentList[k + 1]) * guessItemHeight
    ELSE renderList[k + 1].height
RECURSIVE SumContributed(_)
SumContributed(s) ==
    IF s = 0 THEN 0 ELSE SumContributed(s - 1) + ContributedHeight(s - 1)
\* whether the record of segment s holds a height for in-segment position pos
HasItemHeight(s, pos) ==
    s \in DOMAIN subPageMap /\ pos < Len(subPageMap[s].items)
InSegmentOffset(s, pos) ==
    IF IsArray(renderList[s + 1]) /\ HasItemHeight(s, pos)
    THEN SumSeq([k \in 1..pos |-> subPageMap[s].items[k]])
    ELSE guessItemHeight * pos

\* C7: locate(i) returns header height + the contributed heights of the
\* segments before the one holding i + the in-segment offset (the measured
\* heights of the preceding items when the segment is Rendered and holds a
\* measurement at i's position, guessItemHeight x position otherwise); before
\* any measurement an item of a Placeholder segment is at
\* header + i x guessItemHeight and reported unmeasured.
C7_LocateOffset ==
    \A i \in 0..(NumItems - 1) :
        LET s == SegmentOf(i)
            pos == i - StartOf(s)
        IN  /\ getItemScrollTop(i).scrollTop =
                   headerHeight + SumContributed(s) + InSegmentOffset(s, pos)
            /\ (subPageMap = EmptyMap /\ IsPlaceholder(renderList[s + 1]))
                   => /\ getItemScrollTop(i).scrollTop = headerHeight + i * guessItemHeight
                      /\ ~getItemScrollTop(i).rendered
\* an item behind a measured Rendered segment, in a Rendered segment that
\* holds measurements up to the item's position
C7_MeasuredWalk ==
    \E i \in 0..(NumItems - 1) :
        LET s == SegmentOf(i)
            pos == i - StartOf(s)
        IN  /\ s >= 1 /\ pos >= 1
            /\ IsArray(renderList[1]) /\ 0 \in DOMAIN subPageMap /\ subPageMap[0].height = 7
            /\ IsArray(renderList[s + 1]) /\ HasItemHeight(s, pos)
            /\ subPageMap[s].items[pos] = 5

\* C8: locate(0) returns the header height, whatever the segmentation and
\* whatever the variants and measurements of the segments.
C8_FirstItemAtHeader ==
    getItemScrollTop(0).scrollTop = headerHeight
\* the header is measured and the first segment holds measured items
C8_MeasuredFirstSegment ==
    /\ Len(segmentList) > 0
    /\ headerHeight = 3
    /\ 0 \in DOMAIN subPageMap
    /\ subPageMap[0].items # <<>>
    /\ subPageMap[0].items[1] = 5
    /\ subPageMap[0].height = 7

\* the height of item i as far as the engine knows it
KnownItemHeight(i) ==
    LET s == SegmentOf(i)
        pos == i - StartOf(s)
    IN  IF HasItemHeight(s, pos) THEN subPageMap[s].items[pos + 1] ELSE guessItemHeight

\* C9: for items i < j of the same segment locate(j) is not before locate(i),
\* and strictly after it when an item from i up to j - 1 has a non-zero
\* height, also when the segment's item heights are partially populated.
C9_MonotoneInSegment ==
    \A i \in 0..(NumItems - 1), j \in 0..(NumItems - 1) :
        (i < j /\ SegmentOf(i) = SegmentOf(j))
        => /\ getItemScrollTop(j).scrollTop >= getItemScrollTop(i).scrollTop
           /\ (\E k \in i..(j - 1) : KnownItemHeight(k) # 0)
                  => getItemScrollTop(j).scrollTop > getItemScrollTop(i).scrollTop

\* C10: locate(i) reports measured exactly when the segment holding i is
\* Rendered, also where the item's height is the estimate, and unmeasured
\* exactly when that segment is a Placeholder.
C10_MeasuredIffRendered ==
    \A i \in 0..(NumItems - 1) :
        /\ getItemScrollTop(i).rendered <=> IsArray(renderList[SegmentOf(i) + 1])
        /\ ~getItemScrollTop(i).rendered <=> IsPlaceholder(renderList[SegmentOf(i) + 1])
\* an item of a Rendered segment whose height is the estimate, and an item
\* of a Placeholder segment
C10_EstimateInRendered ==
    /\ \E i \in 0..(NumItems - 1) :
          /\ IsArray(renderList[SegmentOf(i) + 1])
          /\ ~HasItemHeight(SegmentOf(i), i - StartOf(SegmentOf(i)))
    /\ \E i \in 0..(NumItems - 1) : IsPlaceholder(renderList[SegmentOf(i) + 1])

\* the scenario of C11 in the model's scale: segment size 2 for 100, estimate
\* 2 for 50, measured segment height 7 for 6000 and item height 5 for 60;
\* item 5 is the second item of segment 2 (205 is the sixth)
Segment2Measured ==
    /\ Len(segmentList) = 3
    /\ 2 \in DOMAIN subPageMap
    /\ subPageMap[2].height = 7
    /\ subPageMap[2].items = <<5, 5>>
    /\ IsArray(renderList[3])

Jumps(log) == {i \in DOMAIN log : log[i].kind = "jump"}
Exacts(log) == {i \in DOMAIN log : log[i].kind = "exact"}
\* checkElementExists resolved false at the first presence check of scrollTo
AbsentAtFirstCheck == nav.checked \in {"absent", "timeout"}
\* what a settled scrollTo call did after an absent first check and one jump
JumpThenRecheck ==
    /\ Cardinality(Jumps(nav.log)) = 1
    /\ nav.log[1].kind = "jump"
    /\ ~nav.log[1].animated
    /\ nav.rechecked # "present" => nav.log = <<nav.log[1]>> /\ nav.result = TRUE
    /\ nav.rechecked = "present"
           => /\ nav.log = <<nav.log[1], ExactRequest(nav.offsetTop)>>
              /\ nav.result = (nav.scrolled = "ok")

\* C12 as stated: a settled scrollTo call of a completed list whose element was
\* absent at the first check has issued exactly one unanimated jump, then
\* succeeded without another scroll if the element was still absent, or issued
\* one scroll-to-element and returned its success. Violated: no jump is issued
\* when getScrollViewInfo rejects or the node is missing or has no scrollTo.
C12_OneJumpWhenAbsent ==
    (nav.pc = "done" /\ AbsentAtFirstCheck) => JumpThenRecheck

\* C12 amended: the same, provided the scroll-info query resolved and the scroll
\* node offers scrollTo; otherwise the call issues no scroll request at all and
\* returns false.
C12_OneJumpWhenNodeScrolls ==
    (nav.pc = "done" /\ AbsentAtFirstCheck)
    => IF nav.vlInfo = "resolved" /\ nav.node = "ok"
       THEN JumpThenRecheck
       ELSE nav.log = <<>> /\ nav.result = FALSE

\* the element appeared after the jump and the refinement succeeded
C12_Refined ==
    /\ nav.pc = "done"
    /\ nav.checked = "absent"
    /\ nav.rechecked = "present"
    /\ Len(nav.log) = 2
    /\ nav.result = TRUE

\* C13: when the element is present at the first check of scrollTo, the call
\* requests exactly one scroll-to-element with the caller's offsetTop, issues no
\* jump, and returns the success of that request.
C13_ExactOnly ==
    (nav.pc \in {"exact", "done"} /\ nav.checked = "present")
    => /\ nav.log = <<[kind |-> "exact", offsetTop |-> nav.offsetTop]>>
       /\ nav.pc = "done" => nav.result = (nav.scrolled = "ok")

\* a call with an offset whose only request succeeded
C13_ExactSucceeded ==
    /\ nav.pc = "done"
    /\ nav.checked = "present"
    /\ nav.offsetTop = 4
    /\ nav.result = TRUE

\* C14: the estimate that scrollTo computes for an absent element is the offset
\* getItemScrollTop gives for the index in the same state, and the jump goes to
\* that estimate minus offsetTop, clamped to [0, scrollHeight].
C14_JumpTargetsLocate ==
    [][/\ (nav.pc = "exists" /\ nav'.pc = "info")
           => nav'.estimatedScrollTop = getItemScrollTop(nav.index).scrollTop
       /\ (nav.pc = "node" /\ nav'.pc = "recheck")
           => /\ nav'.log[Len(nav'.log)].top
                    = Min(Max(nav.estimatedScrollTop - nav.offsetTop, 0), nav.scrollHeight)
              /\ nav'.log[Len(nav'.log)].top >= 0
              /\ nav'.log[Len(nav'.log)].top <= nav.scrollHeight]_vars

\* some collaborator of the call failed: the scroll-info query rejected, an
\* element probe timed out, the scroll node is missing or has no scrollTo
CollaboratorFailed ==
    \/ nav.vlInfo = "rejected"
    \/ nav.viewInfo = "rejected"
    \/ nav.checked = "timeout"
    \/ nav.rechecked = "timeout"
    \/ nav.node \in {"missing", "noScrollTo"}

\* C15: a settled scrollTo or scrollIntoView call returned a boolean, and
\* returned false when a collaborator failed.
C15_FailureReturnsFalse ==
    nav.pc = "done"
    => /\ nav.result \in BOOLEAN
       /\ CollaboratorFailed => nav.result = FALSE

\* the span of the item, as getItemScrollTop gives it, lies inside the snapshot
SpanInsideSnapshot(n, index) ==
    /\ n.viewTop <= getItemScrollTop(index).scrollTop
    /\ getItemScrollTop(index).scrollTop + getItemScrollTop(index).height
           <= n.viewTop + n.viewHeight

\* C16: when scrollIntoView has read the scroll snapshot, an item whose span lies
\* inside it makes the call succeed without any scroll request, and any other
\* item makes the call continue exactly as scrollTo(index, offsetTop).
C16_InViewOrScrollTo ==
    [][(nav.pc = "view" /\ nav'.viewInfo = "resolved")
       => IF SpanInsideSnapshot(nav', nav.index)
          THEN nav'.pc = "done" /\ nav'.result = TRUE /\ nav'.log = <<>>
          ELSE nav' = [ScrollToCall(NavIdle, nav.index, nav.offsetTop)
                          EXCEPT !.viewInfo = "resolved",
                                 !.viewTop = nav'.viewTop,
                                 !.viewHeight = nav'.viewHeight]]_vars

\* a visible item: the call succeeded and no scroll was requested
C16_NoOpSuccess ==
    /\ nav.pc = "done"
    /\ nav.viewInfo = "resolved"
    /\ nav.checked = "none"
    /\ nav.log = <<>>
    /\ nav.result = TRUE
    /\ isCompleted

\* createSegmentList() has run for the list and the segmentNum of the state
Segmented == initPc \in {"heights", "idle"} /\ list = initList
\* C17: for a non-empty list and a size of at least 1, the segments in order
\* concatenate to the list, every segment but the last has exactly that size,
\* and no segment is empty.
C17_SegmentsPartitionList ==
    (Segmented /\ list.len >= 1 /\ ~segmentNum.smart /\ segmentNum.n >= 1)
    => LET n == segmentNum.n
           last == Len(segmentList)
       IN  /\ last >= 1
           /\ \A i \in 1..(last - 1) : Len(segmentList[i]) = n
           /\ \A i \in 1..last : Len(segmentList[i]) >= 1
           \* the segments before the last hold n items each, so item j of
           \* segment i is item (i - 1) * n + j of the concatenation
           /\ (last - 1) * n + Len(segmentList[last]) = list.len
           /\ \A i \in 1..last : \A j \in 1..Len(segmentList[i]) :
                  /\ (i - 1) * n + j <= list.len
                  /\ segmentList[i][j] = Items(list)[(i - 1) * n + j]

\* a list that ends in a segment shorter than the size
C17_ShortLastSegment ==
    /\ Segmented
    /\ segmentNum = Fixed(3)
    /\ list.len = 7
    /\ Len(segmentList) = 3
    /\ Len(segmentList[3]) = 1

C19_WholeOrNone ==
    Segmented
    => /\ (list.len >= 1 /\ ~segmentNum.smart /\ segmentNum.n <= 0)
              => segmentList = <<Items(list)>>
       /\ list.len = 0 => segmentList = <<>>

\* a negative size applied to a list of several items
C19_NegativeSize ==
    /\ Segmented
    /\ segmentNum.n < 0
    /\ list.len > 1
    /\ Len(segmentList) = 1

\* the three collections that clearObservers clears are empty
Cleared(obs, creating, records) ==
    obs = EmptyMap /\ creating = {} /\ records = EmptyMap

\* C20: a run of clearObservers leaves observersRef, observerCreatingRef and
\* subPageMapRef empty, and the only watchers connected after it are those whose
\* own disconnect threw and those that were not in observersRef; run on
\* collections that are empty already, it changes nothing.
C20_TeardownClearsAll ==
    [][cleanup'.calls = cleanup.calls + 1
       => /\ Cleared(observers', observerCreating', subPageMap')
          /\ LiveWatchers' \subseteq detached \cup cleanup'.threw
          /\ Cleared(observers, observerCreating, subPageMap)
                => UNCHANGED <<observers, observerCreating, subPageMap, detached,
                               segmentList, renderList, probes, retryTimers, measuring,
                               adjacentTimers, batchFrames, isCompleted>>]_vars

\* a disconnect threw in a run that disconnected another watcher, and the
\* cleanup ran again on the cleared collections
C20_TornDownTwice ==
    /\ cleanup.calls = 2
    /\ cleanup.idle
    /\ cleanup.failures >= 1
    /\ cleanup.disconnected >= 1
    /\ Cleared(observers, observerCreating, subPageMap)

\* C21: once the cleanup has run and left observersRef, observerCreatingRef and
\* subPageMapRef empty, no probe or timer started before it installs a watcher
\* or marks one as being created: both watcher sets stay empty.
C21_NothingAfterDisposal ==
    [][(cleanup.calls >= 1 /\ Cleared(observers, observerCreating, subPageMap))
       => observers' = EmptyMap /\ observerCreating' = {}]_vars

\* the record of segment s holds a measurement: rendered, with item heights
IsMeasured(records, s) ==
    /\ s \in DOMAIN records
    /\ records[s].rendered
    /\ records[s].items # <<>>

\* C22: while the list is neither re-segmented nor torn down, a record that
\* holds a measurement keeps holding one: it stays rendered, keeps item heights,
\* and a height that is not the estimate length x guessItemHeight does not
\* become the estimate.
C22_MeasuredStaysMeasured ==
    [][\A s \in DOMAIN subPageMap :
          (IsMeasured(subPageMap, s) /\ epoch' = epoch /\ cleanup' = cleanup)
          => /\ IsMeasured(subPageMap', s)
             /\ subPageMap[s].height # SegLen(s) * guessItemHeight
                   => subPageMap'[s].height # SegLen(s) * guessItemHeight]_vars

\* the sum of the heights of the records of segments 0..s-1
RECURSIVE SumRecordHeights(_)
SumRecordHeights(s) ==
    IF s = 0 THEN 0
    ELSE SumRecordHeights(s - 1)
         + (IF (s - 1) \in DOMAIN subPageMap THEN subPageMap[s - 1].height ELSE 0)

\* C26: for every segment index that has a record, segment 0 included,
\* getPageScrollTop returns the record's height and rendered flag, the index as
\* pageIndex, and the header height plus the record heights of the segments
\* before it as scrollTop.
C26_PagePositionFromRecords ==
    \A s \in 0..(Len(segmentList) - 1) :
        s \in DOMAIN subPageMap
        => /\ getPageScrollTop(s).height = subPageMap[s].height
           /\ getPageScrollTop(s).rendered = subPageMap[s].rendered
           /\ getPageScrollTop(s).pageIndex = s
           /\ getPageScrollTop(s).scrollTop = headerHeight + SumRecordHeights(s)

\* C28: no index is in both observersRef and observerCreatingRef, and every
\* index in either of them is an index of the current segment table.
C28_WatcherSetsDisjointAndValid ==
    /\ DOMAIN observers \cap observerCreating = {}
    /\ \A i \in DOMAIN observers \cup observerCreating :
          i >= 0 /\ i < Len(segmentList)

\* C24 -- throttle(fn, delay, mustRunDelay) under a burst of calls: forced
\* executions of fn are at least mustRunDelay apart; a trailing execution
\* comes delay after the last call and with that call's arguments; no call's
\* arguments are executed twice; once delay has passed since the last call,
\* fn has been executed with the last call's arguments, at or after its arrival.
C24_ThrottleExecutions ==
    /\ [](/\ scroll.forcedGap = 0 \/ scroll.forcedGap >= MustRunDelay
          /\ (scroll.lastCall > 0 /\ scroll.now - scroll.lastCall > ThrottleDelay)
                => /\ scroll.run.arg = scroll.lastCall
                   /\ scroll.run.at >= scroll.lastCall)
    /\ [][scroll'.run # scroll.run
            => /\ scroll'.run.arg > scroll.run.arg
               /\ ~scroll'.run.forced
                     => /\ scroll'.run.arg = scroll.lastCall
                        /\ scroll'.run.at = scroll.lastCall + ThrottleDelay]_vars

\* a burst of calls one tick apart: forced executions at ticks 7 and 13, and a
\* trailing execution for the last call, of tick 14
C24_Witness ==
    /\ scroll.forcedGap = MustRunDelay
    /\ scroll.lastForced = 13
    /\ ~scroll.run.forced
    /\ scroll.run.arg = 14
    /\ scroll.run.at = 14 + ThrottleDelay

\* C23 -- the end-of-scroll notification fires exactly once for a burst of
\* scroll events, after the events have stopped: once the throttle's timer,
\* every getScrollViewInfo query and the end-of-scroll timer have settled, it
\* has fired since the last event; and in the first burst it fires only when no
\* event arrived within the last delay, and not a second time.
C23_EndOfScrollOncePerBurst ==
    /\ []((/\ scroll.lastCall > 0
           /\ scroll.timer = 0
           /\ scroll.pending = 0
           /\ scroll.scrollEndTimer = 0) => scroll.lastEnd >= scroll.lastCall)
    /\ [][(scroll'.ended > scroll.ended /\ scroll.bursts = 1)
            => /\ scroll.now - scroll.lastCall >= ThrottleDelay
               /\ scroll.ended = 0]_vars

\* C25 -- onScrollToEnd is invoked when a scrollTo call completes: once a call
\* has returned, the callback was invoked exactly once if it returned true and
\* not at all if it returned false.
C25_NotifiedOncePerSuccessfulCall ==
    nav.pc = "done"
    => nav.endCalls + scroll.ended = (IF nav.result = TRUE THEN 1 ELSE 0)

\* C29 -- installing a watcher is idempotent: a request for a segment that is
\* Pending or Watching starts no probe, whoever makes it (a batch, the scroll
\* handler, the adjacent prefetch, a retry timer); so an index has at most one
\* probe in flight, only while it is Pending and not Watching, and no watcher
\* is ever replaced by a second one for its index.
C29_InstallIdempotent ==
    /\ [](/\ detached = {}
          /\ \A p \in probes :
                /\ p.index \in observerCreating
                /\ ~Has(observers, p.index)
                /\ \A q \in probes : q.index = p.index => q = p)
    /\ [][\A i \in DOMAIN observers \cup observerCreating :
              /\ \A p \in probes' \ probes : p.index # i
              /\ Has(observers, i) => Has(observers', i) /\ observers'[i] = observers[i]]_vars

\* a retry timer is pending for a segment that the scroll handler has made
\* Pending in the meantime: when it fires its request is ignored
C29_Witness ==
    /\ scroll.run.at > 0
    /\ \E t \in retryTimers : t.index \in observerCreating

C27_FallbackForFailingItemOnly ==
    [][view' # view
        => /\ \A i \in 1..Len(renderList) :
                 IsArray(renderList[i])
                 => /\ view'.pages[i].className = <<"vl-page", i - 1>>
                    /\ Len(view'.pages[i].children) = Len(renderList[i].items)
                    /\ \A k \in 1..Len(renderList[i].items) :
                          /\ view'.pages[i].children[k].id = <<"vl-item", i - 1, k - 1>>
                          /\ renderList[i].items[k] \in view'.failing
                                => view'.pages[i].children[k].children = ErrorView
                          /\ renderList[i].items[k] \notin view'.failing
                                => view'.pages[i].children[k]
                                       = VirtualItem(renderList[i].items[k], i - 1, k - 1, {})
           /\ renderList' = renderList
           /\ subPageMap' = subPageMap
           /\ observers' = observers
           /\ observerCreating' = observerCreating]_vars

\* the first item of a watched segment threw and its sibling is rendered
C27_Witness ==
    /\ view.failing # {}
    /\ \E i \in 1..Len(view.pages) :
          /\ Has(observers, i - 1)
          /\ Len(view.pages[i].children) = 2
          /\ "id" \in DOMAIN view.pages[i].children[1]
          /\ view.pages[i].children[1].children = ErrorView
          /\ view.pages[i].children[2].children.view = "item"

\* C31 -- no segment stays Pending forever: an index in the pending set leaves
\* it, also when the probe finds nothing or times out and when the creation
\* of the watcher throws.
C31_PendingEnds ==
    \A i \in 0..1 : (i \in observerCreating) ~> (i \notin observerCreating)

\* both segments were found at the first probe and the creation of their
\* watchers threw: they are Unwatched and not Pending
C31_Witness ==
    /\ isCompleted
    /\ Len(segmentList) = 2
    /\ batchFrames = {}
    /\ events = 0
    /\ probes = {}
    /\ retryTimers = {}
    /\ observerCreating = {}
    /\ observers = EmptyMap

\* C32 -- the adjacent prefetch of an enter signal for segment s: its timer is
\* armed only by the step in which the measurement that the signal started
\* settles; when it fires, a probe is started and the pending mark set for
\* exactly the segments among s-1, s+1, s+2 that are valid indices and neither
\* Watching nor Pending at that time, and for no other segment.
C32_AdjacentPrefetch ==
    [][/\ \A s \in adjacentTimers' \ adjacentTimers :
             /\ Measure(s, "enter") \in measuring \ measuring'
             /\ probes' = probes
             /\ observerCreating' = observerCreating
       /\ \A s \in adjacentTimers \ adjacentTimers' :
             LET wanted == {i \in {s - 1, s + 1, s + 2} :
                               /\ i >= 0 /\ i < Len(segmentList)
                               /\ i \notin DOMAIN observers
                               /\ i \notin observerCreating}
             IN  /\ observerCreating' = observerCreating \cup wanted
                 /\ probes' \ probes = {Probe(i, 0, epoch) : i \in wanted}
                 /\ probes \subseteq probes'
                 /\ observers' = observers]_vars

\* the last segment's first probe found nothing and its retry is pending; an
\* enter signal for a neighbour was measured and its prefetch probes again
C32_Witness ==
    /\ Measure(1, "enter") \notin measuring
    /\ 1 \notin adjacentTimers
    /\ HasPage(1) /\ IsArray(PageAt(renderList, 1))
    /\ \E t \in retryTimers : t.index = 2 /\ Probe(2, 0, epoch) \in probes

\* C33 -- the adjacent prefetch is debounced per burst of enter signals: the
\* signals of one burst share one timer, so when the prefetch routine runs for
\* a burst no other prefetch timer is left pending to run it again.
C33_OnePrefetchPerBurst ==
    [][(adjacentTimers' # adjacentTimers /\ adjacentTimers' \subseteq adjacentTimers)
          => adjacentTimers' = {}]_vars

\* C34 -- at most one initRenderList is in progress: the re-entrancy flag is set
\* exactly while one is between its steps, and a request made while one is
\* running (a new collection arrives) returns at once: watchers, probes, the
\* segment table, the record store, the render list and the position,
\* collection and flags of the running initialization are left as they were.
C34_SingleInitialization ==
    /\ [](initializing <=> initPc # "idle")
    /\ [][(list' # list /\ initializing) =>
             /\ initializing' /\ initPc' = initPc /\ initList' = initList
             /\ isCompleted' = isCompleted
             /\ observers' = observers /\ detached' = detached
             /\ observerCreating' = observerCreating /\ probes' = probes
             /\ segmentList' = segmentList /\ subPageMap' = subPageMap
             /\ renderList' = renderList /\ epoch' = epoch
             /\ measuring' = measuring]_vars

\* a new collection arrived while the initialization for the previous one was
\* measuring its segments, and that initialization is still at the same step
C34_Witness ==
    /\ initializing /\ initPc = "heights"
    /\ list.id = 2 /\ initList.id = 1
    /\ Len(segmentList) = 2

\* the initialization with a segmenter that may throw
NextInit ==
    \/ NextPending
    \/ InitSegmenterThrows

\* every await of initRenderList settles, and the measurements it waits for do
FairInit ==
    /\ InitView
    /\ [][NextInit]_vars
    /\ WF_vars(\E h \in HeaderHeights : InitHeaderDone(h))
    /\ WF_vars(InitResegment \/ InitSegmenterThrows)
    /\ WF_vars(\E t \in measuring : \E pi \in CoarseInfos(t.index) : MeasureDone(t, pi))
    /\ WF_vars(InitHeightsSettled)

\* C35 -- every initialization that starts finishes: whenever the re-entrancy
\* flag is set, later the flag is released and completed is true, also when
\* the segmenter fails; and whenever completed is true there is a record for
\* every segment of the table.
C35_InitializationFinishes ==
    /\ initializing ~> (~initializing /\ isCompleted)
    /\ [](isCompleted => \A i \in 0..(Len(segmentList) - 1) : Has(subPageMap, i))

\* the list of two segments measured by a platform that may report any
\* combination of segment height and per-item heights
NextMeasure ==
    \/ Watching
    \/ \E t \in measuring : \E pi \in PageInfos(t.index) : MeasureDone(t, pi)
SpecMeasure == InitView /\ [][NextMeasure]_vars

\* C36 -- when the measurement of a segment settles with a page info, the
\* record stored under the segment's index has the segment's length as item
\* count, the measured per-item heights, rendered true exactly when at least
\* one per-item height was measured, and as height the measured segment height
\* when that is not zero and item count times guessItemHeight otherwise.
C36_StoredRecord ==
    [][\A t \in measuring \ measuring' : \A pageInfo \in PageInfos(t.index) :
          MeasureDone(t, pageInfo) =>
             LET itemCount == IF t.index < Len(segmentList)
                              THEN Len(segmentList[t.index + 1]) ELSE 0
             IN  /\ t.index \in DOMAIN subPageMap'
                 /\ subPageMap'[t.index].length = itemCount
                 /\ subPageMap'[t.index].items = pageInfo.items
                 /\ subPageMap'[t.index].rendered = (Len(pageInfo.items) >= 1)
                 /\ subPageMap'[t.index].height =
                       IF pageInfo.height # 0
                       THEN pageInfo.height
                       ELSE itemCount * guessItemHeight]_vars

\* a record that is rendered although its height is the estimate, next to one
\* that is not rendered and carries the estimate
C36_Witness ==
    \E i, j \in DOMAIN subPageMap :
        /\ subPageMap[i].rendered /\ subPageMap[i].length > 0
        /\ subPageMap[i].height = subPageMap[i].length * guessItemHeight
        /\ ~subPageMap[j].rendered /\ subPageMap[j].items = <<>>
        /\ subPageMap[j].height = subPageMap[j].length * guessItemHeight

\* C37 -- a measurement that was started before a re-segmentation and settles
\* after it is discarded: it writes nothing into the store of the new table,
\* so every record of the store has a key among the segments 0..S-1 of the
\* current table.
C37_NoStaleRecord ==
    \A index \in DOMAIN subPageMap : index >= 0 /\ index < Len(segmentList)

\* C38 -- a watched segment whose most recent signal was enter stays Rendered
\* until its watcher delivers leave: no step of the scroll handling swaps it to
\* Placeholder. A Rendered segment has had no leave signal since it became
\* Rendered; its watcher has delivered enter when the segment is not the one
\* rendered by the initialization, or when the measurement or the prefetch
\* timer started by an enter signal is still pending.
C38_EnteredStaysRendered ==
    [][\A i \in DOMAIN observers :
          (/\ \A w \in detached : w.index # i
           /\ HasPage(i) /\ IsArray(PageAt(renderList, i))
           /\ (i >= 1 \/ Measure(i, "enter") \in measuring \/ i \in adjacentTimers)
           /\ scroll' # scroll)
          => IsArray(PageAt(renderList', i))]_vars

\* C39 -- a height measurement never changes the variant of a segment: a step
\* in which a measurement settles, and the step of updateRenderList, leave
\* every Rendered segment Rendered with the same items and every Placeholder a
\* Placeholder, and change at most the Placeholder height and the record of
\* the measured segment. A segment becomes Rendered only in the step of an
\* enter signal of its watcher or, for segment 0, in the re-segmentation step
\* of the initialization.
C39_MeasurementKeepsVariant ==
    [][/\ \A t \in measuring \ measuring' :
             /\ Len(renderList') = Len(renderList)
             /\ \A i \in 0..(Len(renderList) - 1) :
                   /\ (i # t.index \/ IsArray(PageAt(renderList, i)))
                         => PageAt(renderList', i) = PageAt(renderList, i)
                   /\ PageAt(renderList, i).kind = "height"
                         => PageAt(renderList', i).kind = "height"
             /\ DOMAIN subPageMap' = DOMAIN subPageMap \cup {t.index}
             /\ \A i \in DOMAIN subPageMap \ {t.index} : subPageMap'[i] = subPageMap[i]
       /\ (\E t \in measuring' \ measuring : t.kind = "refresh")
             => renderList' = renderList /\ subPageMap' = subPageMap
       /\ \A i \in 0..(Len(renderList') - 1) :
             (/\ IsArray(PageAt(renderList', i))
              /\ ~(i < Len(renderList) /\ IsArray(PageAt(renderList, i))))
             => \/ events' = events + 1 /\ Measure(i, "enter") \in measuring'
                \/ i = 0 /\ epoch' # epoch]_vars

\* the measurement started by the enter signal of segment 1 has settled with a
\* layout, its prefetch timer is pending, and the segment is still Rendered
C39_Witness ==
    /\ 1 \in adjacentTimers
    /\ Measure(1, "enter") \notin measuring
    /\ HasPage(1) /\ subPageMap[1].height = 7
    /\ IsArray(PageAt(renderList, 1))

\* initializations of a list whose scroll container may fail to answer
NextScrollHeight ==
    \/ \E len \in UpdateLens : SetList(len)
    \/ \E h \in HeaderHeights : InitHeaderDone(h)
    \/ \E resolved \in BOOLEAN : \E info \in ScrollInfos : InitResegmentWith(resolved, info)
    \/ \E t \in measuring : \E pi \in CoarseInfos(t.index) : MeasureDone(t, pi)
    \/ InitHeightsSettled
SpecScrollHeight == Init /\ [][NextScrollHeight]_vars

\* C40 -- updateScrollHeight does not fail when the query of the scroll
\* container fails: the initialization that called it goes on, the call returns
\* the snapshot cached before it, and the cached viewport height, content
\* height and snapshot stay as they were; when the query succeeds the three are
\* replaced together by the values of the new snapshot, which is returned. The
\* cached snapshot changes only when a query succeeded.
C40_ScrollQueryFailure ==
    [][/\ \A resolved \in BOOLEAN : \A info \in ScrollInfos :
             InitResegmentWith(resolved, info) =>
                /\ initPc' \in {"heights", "idle"}
                /\ IF resolved
                   THEN /\ scroll'.viewHeight = info.height
                        /\ scroll'.scrollHeight = info.scrollHeight
                        /\ scroll'.lastScrollInfo = info
                        /\ scroll'.returned = info
                   ELSE /\ scroll'.viewHeight = scroll.viewHeight
                        /\ scroll'.scrollHeight = scroll.scrollHeight
                        /\ scroll'.lastScrollInfo = scroll.lastScrollInfo
                        /\ scroll'.returned = scroll.lastScrollInfo
       /\ scroll'.lastScrollInfo # scroll.lastScrollInfo =>
             \E info \in ScrollInfos :
                 InitResegmentWith(TRUE, info) /\ scroll'.lastScrollInfo = info]_vars

\* the query of the second initialization was rejected after the first had
\* cached a snapshot: that snapshot was returned and the cache still holds it
C40_Witness ==
    /\ epoch = 2 /\ initPc = "heights"
    /\ scroll.rejected
    /\ scroll.returned = [scrollTop |-> 6, height |-> 10, scrollHeight |-> 30]
    /\ scroll.lastScrollInfo = scroll.returned
    /\ scroll.viewHeight = 10 /\ scroll.scrollHeight = 30

====
